---- MODULE Spec2Model ----
(***************************************************************************)
(* Model of src/main.py: PersonalExpenseTracker, an interactive expense    *)
(* log kept in a list of dicts and synchronised with expenses.csv.         *)
(*                                                                         *)
(* Representation.                                                         *)
(*  - A Python str is a sequence of one-character strings, so that strip,  *)
(*    isalpha, capitalize, float() and strptime are computed character by  *)
(*    character.  None is the one-element sequence NoneVal.                *)
(*  - A Python float is a record [k, v]: k = "num" with v the value in     *)
(*    units of 10^-FracDigits, k = "inf" with v the sign, or k = "nan".    *)
(*  - expenses.csv is a record: whether it exists, whether open() works,   *)
(*    the header row, the data rows (each a sequence of fields, as the csv *)
(*    module hands them over or takes them), and the row at which reading  *)
(*    raises (0: never).  The csv module's quoting is library code and is  *)
(*    not modelled; the text-mode newline translation that the two open()  *)
(*    calls select is.                                                      *)
(***************************************************************************)
EXTENDS Integers, Sequences, FiniteSets

\* Bounds of the model.
MaxExpenses == 2      \* menu choice 1 is taken while the list holds fewer records
FracDigits == 2       \* fractional decimal digits a modelled float keeps

----------------------------------------------------------------------------
\* Characters and str methods

DigitSeq == <<"0","1","2","3","4","5","6","7","8","9">>

LowerSeq == <<"a","b","c","d","e","f","g","h","i","j","k","l","m",
              "n","o","p","q","r","s","t","u","v","w","x","y","z">>

UpperSeq == <<"A","B","C","D","E","F","G","H","I","J","K","L","M",
              "N","O","P","Q","R","S","T","U","V","W","X","Y","Z">>

Whitespace == {" ", "\t", "\n", "\r"}

NoneVal == <<"None">>

IsDigit(c) == \E i \in 1..10 : DigitSeq[i] = c

DigitVal(c) == (CHOOSE i \in 1..10 : DigitSeq[i] = c) - 1

IsLower(c) == \E i \in 1..26 : LowerSeq[i] = c

IsUpper(c) == \E i \in 1..26 : UpperSeq[i] = c

ToUpper(c) == IF IsLower(c) THEN UpperSeq[CHOOSE i \in 1..26 : LowerSeq[i] = c] ELSE c

ToLower(c) == IF IsUpper(c) THEN LowerSeq[CHOOSE i \in 1..26 : UpperSeq[i] = c] ELSE c

RECURSIVE LStrip(_)
LStrip(s) == IF Len(s) > 0 /\ s[1] \in Whitespace THEN LStrip(Tail(s)) ELSE s

RECURSIVE RStrip(_)
RStrip(s) ==
    IF Len(s) > 0 /\ s[Len(s)] \in Whitespace
    THEN RStrip(SubSeq(s, 1, Len(s) - 1))
    ELSE s

\* str.strip()
Strip(s) == RStrip(LStrip(s))

\* str.isalpha(): false for the empty string
IsAlpha(s) == Len(s) > 0 /\ \A i \in 1..Len(s) : IsLower(s[i]) \/ IsUpper(s[i])

\* str.capitalize()
Capitalize(s) ==
    [i \in 1..Len(s) |-> IF i = 1 THEN ToUpper(s[i]) ELSE ToLower(s[i])]

AllDigits(s) == \A i \in 1..Len(s) : IsDigit(s[i])

RECURSIVE IntVal(_)
IntVal(s) ==
    IF Len(s) = 0 THEN 0
    ELSE 10 * IntVal(SubSeq(s, 1, Len(s) - 1)) + DigitVal(s[Len(s)])

RECURSIVE IntStr(_)
IntStr(n) ==
    IF n < 10 THEN <<DigitSeq[n + 1]>>
    ELSE Append(IntStr(n \div 10), DigitSeq[(n % 10) + 1])

RECURSIVE Pow10(_)
Pow10(n) == IF n = 0 THEN 1 ELSE 10 * Pow10(n - 1)

Scale == Pow10(FracDigits)

----------------------------------------------------------------------------
\* float

Num(v) == [k |-> "num", v |-> v]

NaN == [k |-> "nan", v |-> 0]

Inf(sign) == [k |-> "inf", v |-> sign]

\* x <= 0, x < 0, x >= 0: every comparison with nan is false
FLe0(x) == x.k # "nan" /\ x.v <= 0

FLt0(x) == x.k # "nan" /\ x.v < 0

FGe0(x) == x.k # "nan" /\ x.v >= 0

FNeg(x) == IF x.k = "nan" THEN x ELSE [k |-> x.k, v |-> 0 - x.v]

\* a + b
FAdd(a, b) ==
    IF a.k = "nan" \/ b.k = "nan" THEN NaN
    ELSE IF a.k = "inf" /\ b.k = "inf" THEN (IF a.v = b.v THEN a ELSE NaN)
    ELSE IF a.k = "inf" THEN a
    ELSE IF b.k = "inf" THEN b
    ELSE Num(a.v + b.v)

FSub(a, b) == FAdd(a, FNeg(b))

\* The value of the fractional digits fr, in units of 10^-FracDigits; digits
\* past FracDigits are below the model's resolution.
FracVal(fr) ==
    LET kept == SubSeq(fr, 1, IF Len(fr) < FracDigits THEN Len(fr) ELSE FracDigits)
    IN  IntVal(kept) * Pow10(FracDigits - Len(kept))

\* float(raw) for a str: [ok |-> FALSE] stands for ValueError.  Covers the
\* optional sign, nan, inf, infinity and plain decimals; exponents and digit
\* separators need characters the modelled inputs do not use.
ParseFloat(raw) ==
    LET s      == Strip(raw)
        signed == Len(s) > 0 /\ s[1] \in {"+", "-"}
        sign   == IF Len(s) > 0 /\ s[1] = "-" THEN 0 - 1 ELSE 1
        body   == IF signed THEN Tail(s) ELSE s
        low    == [i \in 1..Len(body) |-> ToLower(body[i])]
        dots   == {i \in 1..Len(body) : body[i] = "."}
        dot    == IF dots = {} THEN Len(body) + 1 ELSE CHOOSE i \in dots : TRUE
        ip     == SubSeq(body, 1, dot - 1)
        fr     == SubSeq(body, dot + 1, Len(body))
    IN  IF low = <<"n","a","n">> THEN [ok |-> TRUE, val |-> NaN]
        ELSE IF low \in {<<"i","n","f">>, <<"i","n","f","i","n","i","t","y">>}
        THEN [ok |-> TRUE, val |-> Inf(sign)]
        ELSE IF /\ Cardinality(dots) <= 1
                /\ AllDigits(ip) /\ AllDigits(fr)
                /\ Len(ip) + Len(fr) > 0
        THEN [ok |-> TRUE, val |-> Num(sign * (IntVal(ip) * Scale + FracVal(fr)))]
        ELSE [ok |-> FALSE, val |-> NaN]

RECURSIVE DropZeros(_)
DropZeros(s) ==
    IF Len(s) > 1 /\ s[Len(s)] = "0" THEN DropZeros(SubSeq(s, 1, Len(s) - 1)) ELSE s

\* n >= 0 written with exactly w digits
RECURSIVE Padded(_, _)
Padded(n, w) ==
    IF w = 0 THEN <<>> ELSE Append(Padded(n \div 10, w - 1), DigitSeq[(n % 10) + 1])

\* str(x) of a float, which is what csv.writer writes for it: the shortest
\* decimal that reads back as x, always with a fractional part.
FloatRepr(x) ==
    IF x.k = "nan" THEN <<"n","a","n">>
    ELSE IF x.k = "inf"
    THEN (IF x.v < 0 THEN <<"-","i","n","f">> ELSE <<"i","n","f">>)
    ELSE LET a == IF x.v < 0 THEN 0 - x.v ELSE x.v
             digits == IntStr(a \div Scale) \o <<".">> \o DropZeros(Padded(a % Scale, FracDigits))
         IN  IF x.v < 0 THEN <<"-">> \o digits ELSE digits

----------------------------------------------------------------------------
\* _validate_date: datetime.strptime(date_str, '%d-%m-%Y')

RECURSIVE SplitDash(_)
SplitDash(s) ==
    LET dashes == {i \in 1..Len(s) : s[i] = "-"}
    IN  IF dashes = {} THEN <<s>>
        ELSE LET d == CHOOSE i \in dashes : \A j \in dashes : i <= j
             IN  <<SubSeq(s, 1, d - 1)>> \o SplitDash(SubSeq(s, d + 1, Len(s)))

NonZeroDigit(c) == IsDigit(c) /\ c # "0"

\* %d: 3[0-1] | [1-2]\d | 0[1-9] | [1-9] | " "[1-9]
DayToken(p) ==
    \/ Len(p) = 1 /\ NonZeroDigit(p[1])
    \/ /\ Len(p) = 2
       /\ \/ p[1] = "3" /\ p[2] \in {"0", "1"}
          \/ p[1] \in {"1", "2"} /\ IsDigit(p[2])
          \/ p[1] \in {"0", " "} /\ NonZeroDigit(p[2])

\* %m: 1[0-2] | 0[1-9] | [1-9]
MonthToken(p) ==
    \/ Len(p) = 1 /\ NonZeroDigit(p[1])
    \/ /\ Len(p) = 2
       /\ \/ p[1] = "1" /\ p[2] \in {"0", "1", "2"}
          \/ p[1] = "0" /\ NonZeroDigit(p[2])

\* %Y: \d\d\d\d
YearToken(p) == Len(p) = 4 /\ AllDigits(p)

IsLeap(y) == y % 4 = 0 /\ (y % 100 # 0 \/ y % 400 = 0)

DaysInMonth(m, y) ==
    IF m = 2 THEN (IF IsLeap(y) THEN 29 ELSE 28)
    ELSE IF m \in {4, 6, 9, 11} THEN 30 ELSE 31

\* TRUE iff strptime returns; FALSE stands for its ValueError (no match of the
\* format, or a day or year that datetime rejects).
ValidateDate(s) ==
    LET parts == SplitDash(s)
    IN  /\ Len(parts) = 3
        /\ DayToken(parts[1]) /\ MonthToken(parts[2]) /\ YearToken(parts[3])
        /\ IntVal(parts[3]) >= 1
        /\ IntVal(Strip(parts[1])) <= DaysInMonth(IntVal(parts[2]), IntVal(parts[3]))

----------------------------------------------------------------------------
\* expenses.csv and the two functions that touch it

FieldNames == <<"date", "category", "amount", "description">>

\* A dict of self.expenses: the four values, and whether the dict also holds
\* keys that are not fieldnames (the restkey None of an over-long row, or a
\* column of the file's header that is not one of the four).
Expense(d, c, a, desc, ex) ==
    [date |-> d, category |-> c, amount |-> a, description |-> desc, extra |-> ex]

MissingFile == [exists |-> FALSE, canOpen |-> FALSE, header |-> <<>>, rows |-> <<>>, failAt |-> 0]

CsvFile(h, rs, fail) == [exists |-> TRUE, canOpen |-> TRUE, header |-> h, rows |-> rs, failAt |-> fail]

\* open(self.filename, 'r'): text mode with universal newlines, so the reader
\* sees "\r\n" and a lone "\r" inside a quoted field as "\n".
RECURSIVE UniversalNewlines(_)
UniversalNewlines(s) ==
    IF Len(s) = 0 THEN s
    ELSE IF s[1] = "\r"
    THEN <<"\n">> \o UniversalNewlines(
             IF Len(s) > 1 /\ s[2] = "\n" THEN SubSeq(s, 3, Len(s)) ELSE Tail(s))
    ELSE <<s[1]>> \o UniversalNewlines(Tail(s))

HasColumn(header, name) == \E i \in 1..Len(header) : header[i] = name

\* csv.DictReader: the value of column `name` in a row; None (restval) when
\* the row is shorter than the header.
Column(header, row, name) ==
    LET i == CHOOSE j \in 1..Len(header) : header[j] = name
    IN  IF i <= Len(row) THEN UniversalNewlines(row[i]) ELSE NoneVal

\* Keys of the row's dict that are not fieldnames.
ExtraKeys(header, row) ==
    \/ Len(row) > Len(header)
    \/ \E i \in 1..Len(header) : \A j \in 1..4 : header[i] # FieldNames[j]

\* The loop of lines 23-31 from data row i on.  acc is self.expenses so far.
\* The result says whether the handler of line 32 printed its warning.
RECURSIVE LoadRows(_, _, _)
LoadRows(f, i, acc) ==
    IF i > Len(f.rows) THEN [expenses |-> acc, warned |-> FALSE]
    ELSE IF f.failAt = i THEN [expenses |-> acc, warned |-> TRUE]
    ELSE LET row == f.rows[i] IN
         IF row = <<>> THEN LoadRows(f, i + 1, acc)
         ELSE IF ~HasColumn(f.header, "amount") THEN LoadRows(f, i + 1, acc)
         ELSE IF Column(f.header, row, "amount") = NoneVal
         THEN [expenses |-> acc, warned |-> TRUE]
         ELSE IF ~ParseFloat(Column(f.header, row, "amount")).ok
         THEN LoadRows(f, i + 1, acc)
         ELSE IF \E j \in 1..4 : ~HasColumn(f.header, FieldNames[j])
         THEN LoadRows(f, i + 1, acc)
         ELSE LoadRows(f, i + 1, Append(acc,
                  Expense(Column(f.header, row, "date"),
                          Column(f.header, row, "category"),
                          ParseFloat(Column(f.header, row, "amount")).val,
                          Column(f.header, row, "description"),
                          ExtraKeys(f.header, row))))

\* _load_expenses on a tracker whose list is empty
LoadExpenses(f) ==
    IF ~f.exists THEN [expenses |-> <<>>, warned |-> FALSE]
    ELSE IF ~f.canOpen THEN [expenses |-> <<>>, warned |-> TRUE]
    ELSE LoadRows(f, 1, <<>>)

\* csv.DictWriter._dict_to_list followed by csv.writer's formatting: None is
\* written as the empty field, a float as its str().
WriteField(v) == IF v = NoneVal THEN <<>> ELSE v

RowOf(e) ==
    <<WriteField(e.date), WriteField(e.category), FloatRepr(e.amount),
      WriteField(e.description)>>

\* writer.writerows: the rows that reach the file before the first dict with
\* a key outside fieldnames raises ValueError.
RECURSIVE WrittenRows(_)
WrittenRows(exps) ==
    IF Len(exps) = 0 \/ exps[1].extra THEN <<>>
    ELSE <<RowOf(exps[1])>> \o WrittenRows(Tail(exps))

\* _save_expenses with `return True` moved out of the try block: it reports
\* success whenever the file could be opened.
SaveExpensesAlwaysTrue(exps, f, openOk) ==
    IF ~openOk THEN [ok |-> FALSE, file |-> f]
    ELSE [ok |-> TRUE, file |-> CsvFile(FieldNames, WrittenRows(exps), 0)]

\* _save_expenses: the value it returns and the file it leaves.  openOk is
\* whether open(self.filename, 'w') succeeds.
SaveExpenses(exps, f, openOk) ==
    IF ~openOk THEN [ok |-> FALSE, file |-> f]
    ELSE [ok   |-> \A i \in 1..Len(exps) : ~exps[i].extra,
          file |-> CsvFile(FieldNames, WrittenRows(exps), 0)]

----------------------------------------------------------------------------
\* Strings used below, spelled out as character sequences

Date0101 == <<"0","1","-","0","1","-","2","0","2","4">>

Date0201 == <<"0","2","-","0","1","-","2","0","2","4">>

DateShort == <<"1","-","2","-","2","0","2","4">>

DateFeb31 == <<"3","1","-","0","2","-","2","0","2","4">>

DateIso == <<"2","0","2","4","-","0","1","-","0","1">>

Yesterday == <<"y","e","s","t","e","r","d","a","y">>

StoredFood == <<"F","o","o","d">>

TypedFood == <<"f","o","o","d">>

Cat123 == <<"1","2","3">>

Amt120 == <<"1","2","0">>

AmtNan == <<"n","a","n">>

AmtNeg == <<"-","5">>

AmtZero == <<"0">>

AmtAbc == <<"a","b","c">>

Amt10 == <<"1","0">>

Amt20p5 == <<"2","0",".","5">>

DescX == <<"x">>

DescCr == <<"a","\r","b">>

DescComma == <<"a",","," ","b">>

Blank == <<" ">>

Bud100 == <<"1","0","0">>

BudNeg == <<"-","1">>

\* What the user types at each prompt
MenuInputs == {<<"1">>, <<"2">>, <<"3">>, <<"4">>, <<"5">>, <<" ","5"," ">>, <<"6">>, <<"x">>, <<>>}

DateInputs == {Date0101, DateShort, DateFeb31, DateIso}

CategoryInputs == {TypedFood, Cat123, <<>>}

AmountInputs == {Amt120, AmtNan, AmtNeg, AmtZero, AmtAbc}

DescriptionInputs == {DescX, DescCr, Blank}

BudgetInputs == {Bud100, AmtZero, BudNeg, AmtAbc}

\* What expenses.csv may hold when main() first runs
GoodRow == <<Date0101, StoredFood, Amt10, DescX>>

OtherRow == <<Date0201, StoredFood, Amt20p5, DescComma>>

InitialFiles ==
    { MissingFile,                                               \* no file
      [MissingFile EXCEPT !.exists = TRUE],                      \* open() raises
      CsvFile(FieldNames, <<GoodRow, <<Date0101, StoredFood, AmtAbc, DescX>> >>, 0),
      CsvFile(FieldNames, <<GoodRow, <<>>, OtherRow>>, 0),
      CsvFile(FieldNames, <<GoodRow, <<Date0201, StoredFood>>, OtherRow>>, 0),
      CsvFile(FieldNames, <<<<Date0201, StoredFood, Amt20p5>> >>, 0),
      CsvFile(FieldNames, <<<<Yesterday, StoredFood, AmtNeg, DescX>> >>, 0),
      CsvFile(FieldNames, <<Append(GoodRow, DescX)>>, 0),
      CsvFile(<<"date", "category", "amount">>, <<GoodRow>>, 0),
      CsvFile(<<"date", "category", "amount", "description", "paid">>, <<OtherRow>>, 0),
      CsvFile(FieldNames, <<GoodRow, OtherRow>>, 2) }            \* read raises at row 2

----------------------------------------------------------------------------
\* The program

VARIABLES
    expenses,        \* self.expenses
    monthly_budget,  \* self.monthly_budget
    file,            \* expenses.csv
    pc,              \* where the process is: not started, blocked in an input(), or exited
    choice,          \* run's local `choice`: the last menu line, stripped
    date,            \* add_expense's local `date`
    category,        \* add_expense's local `category`
    amount,          \* add_expense's local `amount`
    out              \* what the last step printed

vars == <<expenses, monthly_budget, file, pc, choice, date, category, amount, out>>

Said(kind) == [kind |-> kind]

NoLocals == date = <<>> /\ category = <<>> /\ amount = Num(0)

Init ==
    /\ expenses = <<>>
    /\ monthly_budget = Num(0)
    /\ file \in InitialFiles
    /\ pc = "start"
    /\ choice = <<>>
    /\ NoLocals
    /\ out = Said("nothing")

\* main(): PersonalExpenseTracker() runs __init__ and with it _load_expenses;
\* run() then shows the menu and blocks on the choice.
Construct ==
    /\ pc = "start"
    /\ expenses' = LoadExpenses(file).expenses
    /\ monthly_budget' = Num(0)
    /\ out' = IF LoadExpenses(file).warned THEN Said("load_warning") ELSE Said("nothing")
    /\ pc' = "menu"
    /\ UNCHANGED <<file, choice, date, category, amount>>

\* run's if/elif chain on the stripped choice
Branch(c) ==
    IF c = <<"1">> THEN "add"
    ELSE IF c = <<"2">> THEN "view"
    ELSE IF c = <<"3">> THEN "budget"
    ELSE IF c = <<"4">> THEN "track"
    ELSE IF c = <<"5">> THEN "save"
    ELSE "invalid"

\* run with the `break` one level out, so that the else branch leaves too
AfterBranchBreakOnInvalid(b) == IF b \in {"save", "invalid"} THEN "done" ELSE "pause"

\* Where run goes once a branch is done: `break` after the save, else the
\* "Press Enter to continue..." of line 182.
AfterBranch(b) == IF b = "save" THEN "done" ELSE "pause"

\* A tracker that saves after every branch
FileAfterAutoSave(b, exps, f, openOk) == SaveExpenses(exps, f, openOk).file

\* expenses.csv after branch b of the menu: only "5" calls _save_expenses.
FileAfter(b, exps, f, openOk) ==
    IF b = "save" THEN SaveExpenses(exps, f, openOk).file ELSE f

\* The sum over self.expenses[1:], an off-by-one
RECURSIVE TotalSpentSkippingFirst(_)
TotalSpentSkippingFirst(exps) ==
    IF Len(exps) <= 1 THEN Num(0)
    ELSE FAdd(TotalSpentSkippingFirst(SubSeq(exps, 1, Len(exps) - 1)), exps[Len(exps)].amount)

\* sum(expense['amount'] for expense in self.expenses): from 0, left to right
RECURSIVE TotalSpent(_)
TotalSpent(exps) ==
    IF Len(exps) = 0 THEN Num(0)
    ELSE FAdd(TotalSpent(SubSeq(exps, 1, Len(exps) - 1)), exps[Len(exps)].amount)

\* track_budget: what it prints
TrackBudget(budget, exps) ==
    IF FLe0(budget) THEN Said("set_budget_first")
    ELSE LET remaining == FSub(budget, TotalSpent(exps))
         IN  [kind      |-> "summary",
              budget    |-> budget,
              spent     |-> TotalSpent(exps),
              remaining |-> remaining,
              exceeded  |-> ~FGe0(remaining)]

\* view_expenses: what it prints
ViewExpenses(exps) ==
    IF Len(exps) = 0 THEN Said("no_expenses") ELSE [kind |-> "table", rows |-> exps]

\* Menu choice 1: add_expense starts and blocks on the date prompt.
ChooseAdd ==
    /\ pc = "menu"
    /\ Len(expenses) < MaxExpenses
    /\ \E line \in MenuInputs :
          /\ Branch(Strip(line)) = "add"
          /\ choice' = Strip(line)
    /\ pc' = "add_date"
    /\ out' = Said("add_header")
    /\ UNCHANGED <<expenses, monthly_budget, file, date, category, amount>>

\* Lines 61-65
EnterDate ==
    /\ pc = "add_date"
    /\ \E line \in DateInputs :
          IF ValidateDate(Strip(line))
          THEN /\ date' = Strip(line)
               /\ pc' = "add_category"
               /\ out' = Said("nothing")
          ELSE /\ out' = Said("invalid_date")
               /\ UNCHANGED <<date, pc>>
    /\ UNCHANGED <<expenses, monthly_budget, file, choice, category, amount>>

\* Lines 68-73
EnterCategory ==
    /\ pc = "add_category"
    /\ \E line \in CategoryInputs :
          IF Strip(line) # <<>> /\ IsAlpha(Strip(line))
          THEN /\ category' = Capitalize(Strip(line))
               /\ pc' = "add_amount"
               /\ out' = Said("nothing")
          ELSE /\ out' = Said("invalid_category")
               /\ UNCHANGED <<category, pc>>
    /\ UNCHANGED <<expenses, monthly_budget, file, choice, date, amount>>

\* Lines 76-85
EnterAmount ==
    /\ pc = "add_amount"
    /\ \E line \in AmountInputs :
          IF ~ParseFloat(Strip(line)).ok
          THEN /\ out' = Said("invalid_amount")
               /\ UNCHANGED <<amount, pc>>
          ELSE IF FLe0(ParseFloat(Strip(line)).val)
          THEN /\ out' = Said("amount_not_positive")
               /\ UNCHANGED <<amount, pc>>
          ELSE /\ amount' = ParseFloat(Strip(line)).val
               /\ pc' = "add_description"
               /\ out' = Said("nothing")
    /\ UNCHANGED <<expenses, monthly_budget, file, choice, date, category>>

\* Lines 88-101: a non-empty description completes the record, which is
\* appended; add_expense returns and run blocks on "Press Enter".
EnterDescription ==
    /\ pc = "add_description"
    /\ \E line \in DescriptionInputs :
          IF Strip(line) # <<>>
          THEN /\ expenses' = Append(expenses,
                       Expense(date, category, amount, Strip(line), FALSE))
               /\ pc' = AfterBranch("add")
               /\ out' = Said("added")
               /\ date' = <<>> /\ category' = <<>> /\ amount' = Num(0)
          ELSE /\ out' = Said("invalid_description")
               /\ UNCHANGED <<expenses, pc, date, category, amount>>
    /\ file' = FileAfter("add", expenses', file, TRUE)
    /\ UNCHANGED <<monthly_budget, choice>>

\* Menu choice 2
View ==
    /\ pc = "menu"
    /\ \E line \in MenuInputs :
          /\ Branch(Strip(line)) = "view"
          /\ choice' = Strip(line)
          /\ file' = FileAfter("view", expenses, file, TRUE)
    /\ out' = ViewExpenses(expenses)
    /\ pc' = AfterBranch("view")
    /\ UNCHANGED <<expenses, monthly_budget, date, category, amount>>

\* Menu choice 3: set_budget starts and blocks on its prompt.
ChooseBudget ==
    /\ pc = "menu"
    /\ \E line \in MenuInputs :
          /\ Branch(Strip(line)) = "budget"
          /\ choice' = Strip(line)
    /\ pc' = "set_budget"
    /\ out' = Said("nothing")
    /\ UNCHANGED <<expenses, monthly_budget, file, date, category, amount>>

\* Lines 119-130
EnterBudget ==
    /\ pc = "set_budget"
    /\ \E line \in BudgetInputs :
          IF ~ParseFloat(Strip(line)).ok
          THEN /\ out' = Said("invalid_amount")
               /\ UNCHANGED <<monthly_budget, pc>>
          ELSE IF FLt0(ParseFloat(Strip(line)).val)
          THEN /\ out' = Said("budget_not_positive")
               /\ UNCHANGED <<monthly_budget, pc>>
          ELSE /\ monthly_budget' = ParseFloat(Strip(line)).val
               /\ out' = Said("budget_set")
               /\ pc' = AfterBranch("budget")
    /\ file' = FileAfter("budget", expenses, file, TRUE)
    /\ UNCHANGED <<expenses, choice, date, category, amount>>

\* Menu choice 4
Track ==
    /\ pc = "menu"
    /\ \E line \in MenuInputs :
          /\ Branch(Strip(line)) = "track"
          /\ choice' = Strip(line)
          /\ file' = FileAfter("track", expenses, file, TRUE)
    /\ out' = TrackBudget(monthly_budget, expenses)
    /\ pc' = AfterBranch("track")
    /\ UNCHANGED <<expenses, monthly_budget, date, category, amount>>

\* Menu choice 5: _save_expenses, one of the two messages, break.  Whether
\* open() for writing succeeds is the environment's choice.
SaveAndExit ==
    /\ pc = "menu"
    /\ \E line \in MenuInputs, openOk \in BOOLEAN :
          /\ Branch(Strip(line)) = "save"
          /\ choice' = Strip(line)
          /\ file' = FileAfter("save", expenses, file, openOk)
          /\ out' = IF SaveExpenses(expenses, file, openOk).ok
                    THEN Said("saved") ELSE Said("save_warning")
    /\ pc' = AfterBranch("save")
    /\ UNCHANGED <<expenses, monthly_budget, date, category, amount>>

\* Any other menu line
InvalidChoice ==
    /\ pc = "menu"
    /\ \E line \in MenuInputs :
          /\ Branch(Strip(line)) = "invalid"
          /\ choice' = Strip(line)
          /\ file' = FileAfter("invalid", expenses, file, TRUE)
    /\ out' = Said("invalid_choice")
    /\ pc' = AfterBranch("invalid")
    /\ UNCHANGED <<expenses, monthly_budget, date, category, amount>>

\* Line 182, then the top of the loop: show_menu and the choice prompt.
PressEnter ==
    /\ pc = "pause"
    /\ pc' = "menu"
    /\ out' = Said("menu")
    /\ UNCHANGED <<expenses, monthly_budget, file, choice, date, category, amount>>

\* The process has exited; the user runs the program again.  A new process
\* starts with nothing but the file.
Restart ==
    /\ pc = "done"
    /\ pc' = "start"
    /\ expenses' = <<>>
    /\ monthly_budget' = Num(0)
    /\ choice' = <<>>
    /\ out' = Said("nothing")
    /\ UNCHANGED <<file, date, category, amount>>

Next ==
    \/ Construct
    \/ ChooseAdd \/ EnterDate \/ EnterCategory \/ EnterAmount \/ EnterDescription
    \/ View
    \/ ChooseBudget \/ EnterBudget
    \/ Track
    \/ SaveAndExit
    \/ InvalidChoice
    \/ PressEnter
    \/ Restart

Spec == Init /\ [][Next]_vars

----------------------------------------------------------------------------
\* Vocabulary of the claims

\* The four values of a record, without the bookkeeping of extra keys
Fields(e) == <<e.date, e.category, e.amount, e.description>>

FieldsOf(exps) == [i \in 1..Len(exps) |-> Fields(exps[i])]

\* DD-MM-YYYY: two digits, dash, two digits, dash, four digits
DDMMYYYY(d) ==
    /\ Len(d) = 10
    /\ d[3] = "-" /\ d[6] = "-"
    /\ \A i \in {1, 2, 4, 5, 7, 8, 9, 10} : IsDigit(d[i])

\* The four rules of add, as the specification words them
RuleDate(d) ==
    /\ DDMMYYYY(d)
    /\ IntVal(SubSeq(d, 7, 10)) >= 1
    /\ IntVal(SubSeq(d, 4, 5)) \in 1..12
    /\ IntVal(SubSeq(d, 1, 2)) \in 1..DaysInMonth(IntVal(SubSeq(d, 4, 5)), IntVal(SubSeq(d, 7, 10)))

RuleCategory(c) ==
    /\ Len(c) > 0
    /\ IsUpper(c[1])
    /\ \A i \in 2..Len(c) : IsLower(c[i])

RuleAmount(a) == a.k # "nan" /\ a.v > 0

\* A budget counts as configured when it is > 0
Configured(b) == b.k # "nan" /\ b.v > 0

RuleDescription(t) == t # <<>> /\ t # NoneVal

WellFormed(e) ==
    RuleDate(e.date) /\ RuleCategory(e.category) /\ RuleAmount(e.amount)
        /\ RuleDescription(e.description)

\* A data row of the file that has a value in each of the four columns and
\* whose amount reads as a decimal
RowIsWellFormed(f, row) ==
    /\ \A j \in 1..4 : HasColumn(f.header, FieldNames[j])
    /\ \A j \in 1..4 : Column(f.header, row, FieldNames[j]) # NoneVal
    /\ ParseFloat(Column(f.header, row, "amount")).ok

RECURSIVE WellFormedRows(_, _)
WellFormedRows(f, i) ==
    IF i > Len(f.rows) THEN <<>>
    ELSE IF RowIsWellFormed(f, f.rows[i])
    THEN <<<<Column(f.header, f.rows[i], "date"),
             Column(f.header, f.rows[i], "category"),
             ParseFloat(Column(f.header, f.rows[i], "amount")).val,
             Column(f.header, f.rows[i], "description")>>>> \o WellFormedRows(f, i + 1)
    ELSE WellFormedRows(f, i + 1)

\* The sum of the amounts, taken from the head of the list
RECURSIVE SumOfAmounts(_)
SumOfAmounts(exps) ==
    IF Len(exps) = 0 THEN Num(0) ELSE FAdd(exps[1].amount, SumOfAmounts(Tail(exps)))

Loading == pc = "start" /\ pc' = "menu"

Saving == pc = "menu" /\ pc' = "done"

----------------------------------------------------------------------------
\* The claims

\* C1: in every reachable state every record of the expense list has an
\* amount > 0 and a date of the form DD-MM-YYYY; load drops a row that breaks
\* either condition.  Does not hold: _load_expenses admits any row whose
\* amount float() accepts.
C1_LedgerInvariant ==
    \A i \in 1..Len(expenses) :
        RuleAmount(expenses[i].amount) /\ DDMMYYYY(expenses[i].date)

\* C2: loading an existing, readable file ends with the list holding exactly
\* the well-formed rows of the file, in file order, and without the load
\* having been stopped by a row.  Does not hold: a row without an amount
\* ends the load, a row without a description is admitted.
C2_LenientLoad ==
    [][(Loading /\ file.exists /\ file.canOpen /\ file.failAt = 0)
         => /\ FieldsOf(expenses') = WellFormedRows(file, 1)
            /\ out' # Said("load_warning")]_vars

\* C3: for a list of well-formed records, saving it and loading the written
\* file into a fresh tracker gives the same records in the same order, and
\* saving the loaded list writes the same file.  Does not hold: a carriage
\* return in a field is read back as a newline, and a dict with an extra key
\* cannot be written.
C3_RoundTrip ==
    (\A i \in 1..Len(expenses) : WellFormed(expenses[i]))
        => LET written == SaveExpenses(expenses, file, TRUE).file
               loaded  == LoadExpenses(written).expenses
           IN  /\ FieldsOf(loaded) = FieldsOf(expenses)
               /\ SaveExpenses(loaded, written, TRUE).file = written

\* C4: the list changes during add only by one record appended at the end,
\* built from input that meets the four rules (two-digit day and month,
\* four-digit year, a real calendar date; capitalized alphabetic category;
\* positive amount; non-empty description), and a rejected input changes
\* neither the list nor the budget.  Does not hold: a one-digit day or
\* month and the amount nan are accepted.
C4_AddValidates ==
    [][(pc \in {"add_date", "add_category", "add_amount", "add_description"})
         => /\ monthly_budget' = monthly_budget
            /\ \/ expenses' = expenses
               \/ /\ Len(expenses') = Len(expenses) + 1
                  /\ SubSeq(expenses', 1, Len(expenses)) = expenses
                  /\ WellFormed(expenses'[Len(expenses')])]_vars

\* C5: expenses.csv changes only in the step that takes menu choice 5; add,
\* view, set budget, track budget and an invalid choice leave it as it was.
C5_NoAutoSave ==
    [][file' # file => (pc = "menu" /\ choice' = <<"5">> /\ pc' = "done")]_vars

\* C5 witness: a record was added and the file is still absent
C5_Witness ==
    /\ out = Said("added")
    /\ Len(expenses) = 1
    /\ file = MissingFile

\* C6: a budget the user has set, zero included, leaves the tracker in a
\* state other than the never-set one, and budget status does not answer it
\* with the "set your budget first" signal.  Does not hold: 0 is stored as
\* the initial 0.0.
C6_UnsetIsNotZero ==
    [][(pc = "set_budget" /\ out' = Said("budget_set"))
         => /\ monthly_budget' # Num(0)
            /\ TrackBudget(monthly_budget', expenses') # Said("set_budget_first")]_vars

\* C7: with a budget configured (> 0), menu choice 4 reports spent = the sum
\* of all amounts and remaining = budget - spent, flags overspend exactly when
\* remaining is not >= 0 (so whenever it is negative), and changes neither
\* the list nor the budget.
C7_BudgetStatus ==
    [][(pc = "menu" /\ choice' = <<"4">> /\ Configured(monthly_budget))
         => /\ out'.kind = "summary"
            /\ out'.spent = SumOfAmounts(expenses)
            /\ out'.remaining = FSub(monthly_budget, SumOfAmounts(expenses))
            /\ FLt0(out'.remaining) => out'.exceeded
            /\ FGe0(out'.remaining) => ~out'.exceeded
            /\ expenses' = expenses
            /\ monthly_budget' = monthly_budget]_vars

\* C7 witness: budget 100 and one expense of 120 give spent 120, remaining
\* -20 and the overspend message
C7_Witness ==
    /\ out.kind = "summary"
    /\ out.budget = Num(100 * Scale)
    /\ out.spent = Num(120 * Scale)
    /\ out.remaining = Num(0 - 20 * Scale)
    /\ out.exceeded

\* C8: construction never fails; with no file the list is empty and nothing
\* is printed; with a file that cannot be opened, or whose reading fails at
\* any point, the list is empty and the warning is printed.  Does not hold:
\* the rows read before the failure stay in the list.
C8_LoadFailsOpen ==
    [][Loading
         => /\ ~file.exists => (expenses' = <<>> /\ out' = Said("nothing"))
            /\ (file.exists /\ (~file.canOpen \/ file.failAt \in 1..Len(file.rows)))
                   => (expenses' = <<>> /\ out' = Said("load_warning"))]_vars

\* C9: the save step always ends in one of its two messages with the list
\* and the budget as they were; when it reports success the file holds the
\* fixed header and one row per record, in order, carrying that record's
\* date, category and description and an amount that reads back as its amount.
C9_SaveKeepsMemory ==
    [][Saving
         => /\ expenses' = expenses
            /\ monthly_budget' = monthly_budget
            /\ out' \in {Said("saved"), Said("save_warning")}
            /\ out' = Said("saved")
                 => /\ file'.exists /\ file'.header = FieldNames
                    /\ Len(file'.rows) = Len(expenses)
                    /\ \A i \in 1..Len(expenses) :
                          /\ Len(file'.rows[i]) = 4
                          /\ file'.rows[i][1] = WriteField(expenses[i].date)
                          /\ file'.rows[i][2] = WriteField(expenses[i].category)
                          /\ ParseFloat(file'.rows[i][3]).ok
                          /\ ParseFloat(file'.rows[i][3]).val = expenses[i].amount
                          /\ file'.rows[i][4] = WriteField(expenses[i].description)]_vars

\* C9 witness: a failed save that left the list in memory while the file
\* lost its rows
C9_Witness ==
    /\ pc = "done"
    /\ out = Said("save_warning")
    /\ Len(expenses) >= 1
    /\ file.exists /\ file.rows = <<>>

====
